---- MODULE Spec2Model ----
(***************************************************************************)
(* The step graph declared by alphafold_inference_pipeline                 *)
(* (src/src/pipelines/alphafold_inference_pipeline.py) and its execution   *)
(* by the pipeline backend: four static steps (configuration, two          *)
(* importers, data preparation), a ParallelFor over the model_runners      *)
(* output of the configuration step, one prediction step per element and   *)
(* a relaxation step under dsl.Condition(is_run_relax == 'relax').         *)
(***************************************************************************)
EXTENDS Naturals, Integers, Sequences, FiniteSets, TLC

\* ------------------------------------------------------------------ bounds
\* Longest model_runners list the configuration step is let to produce.
MaxRunners == 2
\* Largest value of config.PARALLELISM explored (0 = no limit).
MaxParallelism == 2

\* ------------------------------------------------------- program constants
\* model_predict.set_retry(num_retries=1, ...)
PredictNumRetries == 1
\* relax_protein.set_retry(num_retries=1, ...)
RelaxNumRetries == 1

VARIABLES
    is_run_relax,    \* pipeline input is_run_relax
    parallelism,     \* config.PARALLELISM
    model_runners,   \* run_config.outputs['model_runners']
    loop,            \* the ParallelFor: "pending", "expanded" or "skipped"
    tasks,           \* the steps of the run
    status,          \* step -> pending/running/backoff/succeeded/failed/skipped
    attempts,        \* step -> number of attempts launched
    starts,          \* step -> number of times the step was started
    args,            \* step -> the arguments it was invoked with
    output           \* step -> the artifact it produced

vars == <<is_run_relax, parallelism, model_runners, loop, tasks, status,
          attempts, starts, args, output>>

\* ------------------------------------------------------------------- steps
run_config          == <<"ConfigureRunOp", 0>>
model_parameters    == <<"importer_model_parameters", 0>>
reference_databases == <<"importer_reference_databases", 0>>
data_pipeline       == <<"DataPipelineOp", 0>>
model_predict(i)    == <<"WrappedPredictOp", i>>
relax_protein(i)    == <<"WrappedRelaxOp", i>>

Kind(t)  == t[1]
Index(t) == t[2]

StaticTasks == {run_config, model_parameters, reference_databases, data_pipeline}

\* Values the is_run_relax input is drawn from; 'relax' is the default.
RelaxFlags == {"relax", "no_relax", "RELAX"}

\* The descriptors the configuration step emits: element i of the list names
\* the i-th model, its prediction index and a seed derived from a base seed.
Seeds == {10, 20}

Descriptor(seed, i) ==
    [model_name |-> i, prediction_index |-> i - 1, random_seed |-> seed + i]

RunnerLists ==
    { [i \in 1..n |-> Descriptor(seed, i)] : n \in 0..MaxRunners, seed \in Seeds }

NoArgs   == [none |-> TRUE]
NoOutput == [by |-> <<"none", 0>>, attempt |-> 0]

Terminal == {"succeeded", "failed", "skipped"}

\* ------------------------------------------------------------ declarations
\* Retry policy: set_retry is called on model_predict and relax_protein only.
NumRetriesAll(t) == 1

NumRetries(t) ==
    CASE Kind(t) = "WrappedPredictOp" -> PredictNumRetries
      [] Kind(t) = "WrappedRelaxOp"   -> RelaxNumRetries
      [] OTHER                        -> 0

\* Upstream steps of 'Prepare Features': it consumes reference_databases.output,
\* run_config.outputs['sequence'] and run_config.outputs['run_multimer_system'].
DataPipelineDepsNoConfig == {reference_databases}

DataPipelineDeps == {reference_databases, run_config}

\* Upstream steps of the prediction of iteration i.
PredictDepsNoFeatures(i) == {model_parameters, run_config}

PredictDeps(i) == {data_pipeline, model_parameters, run_config}

\* Upstream steps of the relaxation of iteration i.
RelaxDeps(i) == {model_predict(i)}

\* The configuration step would wait for a step that waits for it.
RunConfigDepsCyclic == {data_pipeline}

RunConfigDeps == {}

Deps(t) ==
    CASE Kind(t) = "ConfigureRunOp"   -> RunConfigDeps
      [] Kind(t) = "DataPipelineOp"   -> DataPipelineDeps
      [] Kind(t) = "WrappedPredictOp" -> PredictDeps(Index(t))
      [] Kind(t) = "WrappedRelaxOp"   -> RelaxDeps(Index(t))
      [] OTHER                        -> {}

\* dsl.Condition(is_run_relax == 'relax')
RelaxConditionAlways == TRUE

RelaxCondition == is_run_relax = "relax"

Condition(t) == IF Kind(t) = "WrappedRelaxOp" THEN RelaxCondition ELSE TRUE

\* Iterations of the ParallelFor: one per element of loop_args.
LoopItems == 1..Len(model_runners)

LoopTasks == {model_predict(i) : i \in LoopItems} \cup {relax_protein(i) : i \in LoopItems}

\* Arguments of the steps.
DataPipelineInputs ==
    [ ref_databases       |-> output[reference_databases],
      sequence            |-> output[run_config],
      run_multimer_system |-> output[run_config] ]

PredictInputsFirstRunner(i) ==
    [ model_features      |-> output[data_pipeline],
      model_params        |-> output[model_parameters],
      model_name          |-> model_runners[1].model_name,
      prediction_index    |-> model_runners[1].prediction_index,
      run_multimer_system |-> output[run_config],
      num_ensemble        |-> output[run_config],
      random_seed         |-> model_runners[1].random_seed ]

PredictInputsWrongFeatures(i) ==
    [ model_features      |-> output[reference_databases],
      model_params        |-> output[model_parameters],
      model_name          |-> model_runners[i].model_name,
      prediction_index    |-> model_runners[i].prediction_index,
      run_multimer_system |-> output[run_config],
      num_ensemble        |-> output[run_config],
      random_seed         |-> model_runners[i].random_seed ]

PredictInputs(i) ==
    [ model_features      |-> output[data_pipeline],
      model_params        |-> output[model_parameters],
      model_name          |-> model_runners[i].model_name,
      prediction_index    |-> model_runners[i].prediction_index,
      run_multimer_system |-> output[run_config],
      num_ensemble        |-> output[run_config],
      random_seed         |-> model_runners[i].random_seed ]

RelaxInputsFirstIteration(i) ==
    [ unrelaxed_protein |-> output[model_predict(1)], use_gpu |-> TRUE ]

RelaxInputs(i) ==
    [ unrelaxed_protein |-> output[model_predict(i)], use_gpu |-> TRUE ]

Inputs(t) ==
    CASE Kind(t) = "DataPipelineOp"   -> DataPipelineInputs
      [] Kind(t) = "WrappedPredictOp" -> PredictInputs(Index(t))
      [] Kind(t) = "WrappedRelaxOp"   -> RelaxInputs(Index(t))
      [] OTHER                        -> NoArgs

\* --------------------------------------------------------------- scheduling
\* An iteration holds a slot of the loop from the start of its prediction
\* until every step of the iteration is terminal.
IterationActive(i) ==
    /\ starts[model_predict(i)] > 0
    /\ ~ (status[model_predict(i)] \in Terminal /\ status[relax_protein(i)] \in Terminal)

ActiveIterations == {i \in LoopItems : loop = "expanded" /\ IterationActive(i)}

\* parallelism=config.PARALLELISM; 0 places no limit.
SlotFreeOffByOne == parallelism = 0 \/ Cardinality(ActiveIterations) <= parallelism

SlotFree == parallelism = 0 \/ Cardinality(ActiveIterations) < parallelism

\* A step is started once every upstream step has succeeded.
DepsSatisfiedOnCompletion(t) == \A d \in Deps(t) : d \in tasks /\ status[d] \in Terminal

DepsSatisfied(t) == \A d \in Deps(t) : d \in tasks /\ status[d] = "succeeded"

DepsBroken(t) == \E d \in Deps(t) : d \in tasks /\ status[d] \in {"failed", "skipped"}

Init ==
    /\ is_run_relax \in RelaxFlags
    /\ parallelism \in 0..MaxParallelism
    /\ model_runners = <<>>
    /\ loop = "pending"
    /\ tasks = StaticTasks
    /\ status = [t \in StaticTasks |-> "pending"]
    /\ attempts = [t \in StaticTasks |-> 0]
    /\ starts = [t \in StaticTasks |-> 0]
    /\ args = [t \in StaticTasks |-> NoArgs]
    /\ output = [t \in StaticTasks |-> NoOutput]

\* The backend launches the first attempt of a step.
Start(t) ==
    /\ status[t] = "pending"
    /\ DepsSatisfied(t)
    /\ Condition(t)
    /\ Kind(t) = "WrappedPredictOp" => SlotFree
    /\ status' = [status EXCEPT ![t] = "running"]
    /\ attempts' = [attempts EXCEPT ![t] = 1]
    /\ starts' = [starts EXCEPT ![t] = @ + 1]
    /\ args' = [args EXCEPT ![t] = Inputs(t)]
    /\ UNCHANGED <<is_run_relax, parallelism, model_runners, loop, tasks, output>>

\* An attempt ends successfully; the configuration step publishes model_runners.
Succeed(t) ==
    /\ status[t] = "running"
    /\ status' = [status EXCEPT ![t] = "succeeded"]
    /\ output' = [output EXCEPT ![t] = [by |-> t, attempt |-> attempts[t]]]
    /\ IF t = run_config
          THEN \E runners \in RunnerLists : model_runners' = runners
          ELSE UNCHANGED model_runners
    /\ UNCHANGED <<is_run_relax, parallelism, loop, tasks, attempts, starts, args>>

\* An attempt ends in failure: the step backs off for a retry while it has
\* retries left and is failed otherwise.
Fail(t) ==
    /\ status[t] = "running"
    /\ status' = [status EXCEPT ![t] =
                    IF attempts[t] < 1 + NumRetries(t) THEN "backoff" ELSE "failed"]
    /\ UNCHANGED <<is_run_relax, parallelism, model_runners, loop, tasks,
                   attempts, starts, args, output>>

\* The backoff elapses and the next attempt is launched.
Retry(t) ==
    /\ status[t] = "backoff"
    /\ status' = [status EXCEPT ![t] = "running"]
    /\ attempts' = [attempts EXCEPT ![t] = @ + 1]
    /\ UNCHANGED <<is_run_relax, parallelism, model_runners, loop, tasks,
                   starts, args, output>>

\* A step whose condition is false, or with a failed or skipped upstream
\* step, is never run.
Skip(t) ==
    /\ status[t] = "pending"
    /\ DepsBroken(t) \/ ~Condition(t)
    /\ status' = [status EXCEPT ![t] = "skipped"]
    /\ UNCHANGED <<is_run_relax, parallelism, model_runners, loop, tasks,
                   attempts, starts, args, output>>

\* dsl.ParallelFor(loop_args=run_config.outputs['model_runners']): the loop
\* body is instantiated once per element when the list is available.
ExpandLoop ==
    /\ loop = "pending"
    /\ status[run_config] = "succeeded"
    /\ loop' = "expanded"
    /\ tasks' = tasks \cup LoopTasks
    /\ status' = [t \in tasks \cup LoopTasks |-> IF t \in tasks THEN status[t] ELSE "pending"]
    /\ attempts' = [t \in tasks \cup LoopTasks |-> IF t \in tasks THEN attempts[t] ELSE 0]
    /\ starts' = [t \in tasks \cup LoopTasks |-> IF t \in tasks THEN starts[t] ELSE 0]
    /\ args' = [t \in tasks \cup LoopTasks |-> IF t \in tasks THEN args[t] ELSE NoArgs]
    /\ output' = [t \in tasks \cup LoopTasks |-> IF t \in tasks THEN output[t] ELSE NoOutput]
    /\ UNCHANGED <<is_run_relax, parallelism, model_runners>>

\* Without its loop_args the loop is skipped as a whole.
SkipLoop ==
    /\ loop = "pending"
    /\ status[run_config] \in {"failed", "skipped"}
    /\ loop' = "skipped"
    /\ UNCHANGED <<is_run_relax, parallelism, model_runners, tasks, status,
                   attempts, starts, args, output>>

Schedule ==
    \/ \E t \in tasks : Start(t)
    \/ \E t \in tasks : Retry(t)
    \/ \E t \in tasks : Skip(t)
    \/ ExpandLoop
    \/ SkipLoop

Finish ==
    \/ \E t \in tasks : Succeed(t)
    \/ \E t \in tasks : Fail(t)

Next ==
    \/ \E t \in tasks : Start(t)
    \/ \E t \in tasks : Succeed(t)
    \/ \E t \in tasks : Fail(t)
    \/ \E t \in tasks : Retry(t)
    \/ \E t \in tasks : Skip(t)
    \/ ExpandLoop
    \/ SkipLoop

Spec == Init /\ [][Next]_vars

\* The backend schedules every step that is ready, and every attempt ends.
FairSpec == Spec /\ WF_vars(Schedule) /\ WF_vars(Finish)

\* ------------------------------------------------------------- properties
PredictTasks == {t \in tasks : Kind(t) = "WrappedPredictOp"}
RelaxTasks   == {t \in tasks : Kind(t) = "WrappedRelaxOp"}
Expanded     == loop = "expanded"

\* C1: 'Prepare Features' never starts before 'Configure Pipeline Run' has
\* succeeded, and its sequence and run_multimer_system arguments are outputs
\* of that step.
C1_ConfigureBeforeDataPipeline ==
    starts[data_pipeline] > 0 =>
        /\ status[run_config] = "succeeded"
        /\ output[run_config] # NoOutput
        /\ args[data_pipeline].sequence = output[run_config]
        /\ args[data_pipeline].run_multimer_system = output[run_config]

C1_Witness ==
    /\ status[data_pipeline] = "running"
    /\ args[data_pipeline].sequence.by = run_config

\* C2: with a parallelism limit P >= 1, the iterations in progress (from the
\* start of the prediction until the prediction and, when the relax gate
\* holds, the relaxation are terminal) never number more than P.
InProgress(i) ==
    /\ starts[model_predict(i)] > 0
    /\ ~ ( /\ status[model_predict(i)] \in Terminal
           /\ is_run_relax = "relax" => status[relax_protein(i)] \in Terminal )

C2_BoundedFanOut ==
    parallelism >= 1 =>
        Cardinality({i \in DOMAIN model_runners : Expanded /\ InProgress(i)}) <= parallelism

C2_Witness ==
    /\ parallelism = 1
    /\ Expanded
    /\ Len(model_runners) = 2
    /\ status[model_predict(2)] = "running"
    /\ status[model_predict(1)] = "pending"
    /\ DepsSatisfied(model_predict(1))

\* C3: the prediction steps are exactly one per element of model_runners,
\* each invoked with its own element's model_name, prediction_index and
\* random_seed; no list, or an empty one, gives no prediction step.
C3_OnePredictionPerRunner ==
    /\ PredictTasks = IF Expanded THEN {model_predict(i) : i \in DOMAIN model_runners} ELSE {}
    /\ Cardinality(PredictTasks) = IF Expanded THEN Len(model_runners) ELSE 0
    /\ \A t \in PredictTasks :
          /\ starts[t] <= 1
          /\ starts[t] > 0 =>
                /\ args[t].model_name = model_runners[Index(t)].model_name
                /\ args[t].prediction_index = model_runners[Index(t)].prediction_index
                /\ args[t].random_seed = model_runners[Index(t)].random_seed

C3_Witness ==
    /\ Expanded
    /\ Len(model_runners) = 2
    /\ starts[model_predict(1)] = 1
    /\ starts[model_predict(2)] = 1
    /\ args[model_predict(1)].random_seed # args[model_predict(2)].random_seed

\* C4: a relaxation step is started only when is_run_relax = 'relax'; with
\* any other value every relaxation step stays unstarted.
C4_RelaxGate ==
    \A t \in RelaxTasks :
        /\ starts[t] > 0 => is_run_relax = "relax"
        /\ is_run_relax # "relax" => status[t] \in {"pending", "skipped"} /\ attempts[t] = 0

\* ... while the prediction steps still run.
C4_Witness ==
    /\ is_run_relax # "relax"
    /\ Expanded
    /\ Len(model_runners) = 2
    /\ \A i \in 1..2 : status[model_predict(i)] = "succeeded" /\ status[relax_protein(i)] = "skipped"

\* C5: prediction and relaxation steps are attempted at most twice and are
\* failed once both attempts failed; every other step is attempted at most
\* once and a failure of it is never retried.
Retried(t) == Kind(t) \in {"WrappedPredictOp", "WrappedRelaxOp"}

C5_RetryPolicy ==
    \A t \in tasks :
        /\ Retried(t) =>
              /\ attempts[t] <= 2
              /\ status[t] = "failed" => attempts[t] = 2
              /\ status[t] = "backoff" => attempts[t] = 1
        /\ ~Retried(t) =>
              /\ attempts[t] <= 1
              /\ status[t] # "backoff"

C5_Witness ==
    /\ Expanded
    /\ Len(model_runners) >= 1
    /\ status[model_predict(1)] = "succeeded" /\ attempts[model_predict(1)] = 2
    /\ status[relax_protein(1)] = "failed" /\ attempts[relax_protein(1)] = 2
    /\ attempts[data_pipeline] = 1

\* C6: a prediction step never starts before 'Prepare Features' has succeeded
\* and the model-parameters importer has completed; it consumes the outputs
\* of both.
C6_FeaturesBeforePrediction ==
    \A t \in PredictTasks :
        starts[t] > 0 =>
            /\ status[data_pipeline] = "succeeded"
            /\ status[model_parameters] = "succeeded"
            /\ args[t].model_features.by = data_pipeline
            /\ args[t].model_params.by = model_parameters

C6_Witness ==
    /\ Expanded
    /\ \E t \in PredictTasks : status[t] = "running" /\ attempts[t] = 1

\* C7: the relaxation of iteration i never starts before the prediction of
\* iteration i has succeeded, takes that prediction's output as
\* unrelaxed_protein, and is started at most once.
C7_PredictionBeforeRelaxation ==
    \A t \in RelaxTasks :
        /\ starts[t] <= 1
        /\ starts[t] > 0 =>
              /\ status[model_predict(Index(t))] = "succeeded"
              /\ args[t].unrelaxed_protein = output[model_predict(Index(t))]
              /\ args[t].unrelaxed_protein.by = model_predict(Index(t))

C7_Witness ==
    /\ Expanded
    /\ Len(model_runners) = 2
    /\ status[model_predict(1)] = "succeeded"
    /\ status[relax_protein(2)] = "running"
    /\ status[relax_protein(1)] = "pending"

\* C8: under fair scheduling, with every attempt ending, the run reaches a
\* state where every step is terminal, and stays there: no step is started
\* again.
RunFinished ==
    /\ loop # "pending"
    /\ \A t \in tasks : status[t] \in Terminal

C8_RunTerminates == <>[]RunFinished

C8_Witness ==
    /\ RunFinished
    /\ Expanded
    /\ Len(model_runners) = 2
    /\ status[model_predict(1)] = "failed"
    /\ status[relax_protein(2)] = "succeeded"

\* C9: the configuration step, the data-preparation step and the two
\* importers are each started at most once whatever the number of model
\* runners, and every prediction reads the features of the one
\* data-preparation step.
C9_SharedPrefix ==
    /\ \A t \in StaticTasks : starts[t] <= 1 /\ attempts[t] <= 1
    /\ {t \in tasks : Kind(t) \notin {"WrappedPredictOp", "WrappedRelaxOp"}} = StaticTasks
    /\ \A t \in PredictTasks :
          starts[t] > 0 => args[t].model_features = [by |-> data_pipeline, attempt |-> 1]

C9_Witness ==
    /\ Expanded
    /\ Len(model_runners) = 2
    /\ \A i \in 1..2 : status[model_predict(i)] = "succeeded"
    /\ args[model_predict(1)].model_features = args[model_predict(2)].model_features

\* C10: after a failure of the configuration or data-preparation step no
\* prediction or relaxation step is ever started, and after the prediction of
\* iteration i has failed both attempts its relaxation is never started.
C10_FailureBlocksDownstream ==
    /\ (status[run_config] = "failed" \/ status[data_pipeline] = "failed") =>
          \A t \in PredictTasks \cup RelaxTasks : starts[t] = 0 /\ attempts[t] = 0
    /\ \A t \in PredictTasks :
          status[t] = "failed" =>
              starts[relax_protein(Index(t))] = 0 /\ attempts[relax_protein(Index(t))] = 0

C10_Witness ==
    /\ is_run_relax = "relax"
    /\ Expanded
    /\ Len(model_runners) >= 1
    /\ status[model_predict(1)] = "failed" /\ attempts[model_predict(1)] = 2
    /\ status[relax_protein(1)] = "skipped"

====
